---------------------------- MODULE Spec2Model ----------------------------
(***************************************************************************)
(* Model of the AI UX auditor actor (src/unnamed/part_002, the revision    *)
(* in which users bring their own API key): provider resolution, the two   *)
(* AI call shapes with the retry loop of the chat-completion shape, and    *)
(* the request handler that normalises and persists the result.            *)
(*                                                                         *)
(* Strings.  A credential is a sequence of characters.  A message (an      *)
(* error message, a response text) is a sequence of words; the words of a  *)
(* message stand for its text with single blanks between them, and the     *)
(* needles the code searches for are word sequences too ('rate limit' is   *)
(* <<"rate", "limit">>, 'insufficient_quota' is <<"insufficient_",         *)
(* "quota">> so that it contains 'quota' as the text does).                *)
(***************************************************************************)
EXTENDS Integers, Sequences, FiniteSets, TLC

VARIABLES
    inputGiven,  \* whether Actor.getInput() returned an input object
    useFreeMode, \* input.useFreeMode (read by the free-tier revision only)
    usageTracker, \* the module-level usageTracker of the free-tier revision
    apiKey,      \* input.apiKey, the credential
    startUrls,   \* input.startUrls, the URLs of the run
    analysisType, \* input.analysisType, the audit category
    maxConcurrency, \* input.maxConcurrency, the crawler's worker pool size
    aiProvider,  \* the handle held by Actor.main (NoProvider before resolution)
    mainPc,      \* position of Actor.main
    mainError,   \* message of the error Actor.main threw (<<>> when none)
    handler,     \* per URL: the state of its requestHandler invocation
    dataset      \* the records pushed with Actor.pushData, in order

vars == <<inputGiven, useFreeMode, usageTracker, apiKey, startUrls, analysisType, maxConcurrency, aiProvider, mainPc, mainError, handler, dataset>>

-----------------------------------------------------------------------------
(* Bounds *)

\* longest credential, counted in chunks of Chunks
MaxKeyChunks == 3

\* number of start URLs of a run
NumUrls == 2

\* largest maxConcurrency an input asks for
MaxConcurrencyInput == 2
NumFreeUrls == 6

-----------------------------------------------------------------------------
(* String primitives *)

\* String.prototype.startsWith
StartsWith(s, p) == Len(s) >= Len(p) /\ SubSeq(s, 1, Len(p)) = p

\* String.prototype.includes
Includes(s, sub) ==
    \E i \in 0..(Len(s) - Len(sub)) : SubSeq(s, i + 1, i + Len(sub)) = sub

RECURSIVE Flatten(_)
Flatten(ss) == IF ss = <<>> THEN <<>> ELSE Head(ss) \o Flatten(Tail(ss))

RECURSIVE SeqsUpTo(_, _)
SeqsUpTo(S, n) ==
    IF n = 0 THEN {<<>>}
    ELSE LET shorter == SeqsUpTo(S, n - 1)
         IN  shorter \cup {Append(s, x) : s \in shorter, x \in S}

-----------------------------------------------------------------------------
(* Provider resolution: initializeAIProvider *)

PrefixOpenRouter == <<"s", "k", "-", "o", "r", "-">>
PrefixOpenAI     == <<"s", "k", "-">>
PrefixGemini     == <<"A", "I", "z", "a">>

\* the pieces credentials are built from: the prefixes' parts, a part that
\* falls short of a prefix, and a foreign character
Chunks ==
    { <<"s", "k", "-">>, <<"o", "r", "-">>, <<"A", "I", "z", "a">>,
      <<"s", "k">>, <<"x">> }

Keys == {Flatten(cs) : cs \in SeqsUpTo(Chunks, MaxKeyChunks)}

NoProvider == [type |-> "none"]
Undefined  == "undefined"

MsgKeyRequired   == <<"API", "Key", "is", "required">>
MsgNoInput       == <<"No", "input", "provided.">>
MsgNoUrls        == <<"No", "URLs", "provided.">>
MsgInvalidFormat == <<"Invalid", "API", "key", "format">>

OpenRouterClient(key) ==
    [sdk |-> "OpenAI", apiKey |-> key, baseURL |-> "https://openrouter.ai/api/v1"]
OpenAIClient(key) ==
    [sdk |-> "OpenAI", apiKey |-> key, baseURL |-> "default"]
GeminiClient(key) ==
    [sdk |-> "GoogleGenerativeAI", apiKey |-> key, baseURL |-> "default"]

Returned(v) == [ok |-> TRUE, value |-> v, error |-> <<>>]
Thrown(msg) == [ok |-> FALSE, value |-> NoProvider, error |-> msg]

\* initializeAIProvider with the generic 'sk-' test ahead of 'sk-or-'
initializeAIProviderGenericFirst(key) ==
    IF key = <<>> THEN Thrown(MsgKeyRequired)
    ELSE IF StartsWith(key, PrefixOpenAI)
         THEN Returned([type |-> "openai", client |-> OpenAIClient(key),
                        model |-> "gpt-4o"])
    ELSE IF StartsWith(key, PrefixOpenRouter)
         THEN Returned([type |-> "openrouter", client |-> OpenRouterClient(key),
                        model |-> "openai/gpt-4o-mini"])
    ELSE IF StartsWith(key, PrefixGemini)
         THEN Returned([type |-> "gemini", client |-> GeminiClient(key),
                        model |-> Undefined])
    ELSE Thrown(MsgInvalidFormat)

\* initializeAIProvider with the final else falling back to OpenAI
initializeAIProviderFallback(key) ==
    IF key = <<>> THEN Thrown(MsgKeyRequired)
    ELSE IF StartsWith(key, PrefixOpenRouter)
         THEN Returned([type |-> "openrouter", client |-> OpenRouterClient(key),
                        model |-> "openai/gpt-4o-mini"])
    ELSE IF StartsWith(key, PrefixGemini)
         THEN Returned([type |-> "gemini", client |-> GeminiClient(key),
                        model |-> Undefined])
    ELSE Returned([type |-> "openai", client |-> OpenAIClient(key),
                   model |-> "gpt-4o"])

\* the outcome of initializeAIProvider(key): a handle, or a thrown error
initializeAIProvider(key) ==
    IF key = <<>> THEN Thrown(MsgKeyRequired)
    ELSE IF StartsWith(key, PrefixOpenRouter)
         THEN Returned([type |-> "openrouter", client |-> OpenRouterClient(key),
                        model |-> "openai/gpt-4o-mini"])
    ELSE IF StartsWith(key, PrefixOpenAI)
         THEN Returned([type |-> "openai", client |-> OpenAIClient(key),
                        model |-> "gpt-4o"])
    ELSE IF StartsWith(key, PrefixGemini)
         THEN Returned([type |-> "gemini", client |-> GeminiClient(key),
                        model |-> Undefined])
    ELSE Thrown(MsgInvalidFormat)

-----------------------------------------------------------------------------
(* JavaScript values, as far as the handler looks at them *)

Undef    == [t |-> "undefined"]
Null     == [t |-> "null"]
Num(n)   == [t |-> "number", v |-> n]
Str(ws)  == [t |-> "string", v |-> ws]
Arr(es)  == [t |-> "array", v |-> es]

\* the values JavaScript's || skips over
Falsy(x) ==
    \/ x.t \in {"undefined", "null"}
    \/ x.t = "number" /\ x.v = 0
    \/ x.t = "string" /\ x.v = <<>>

\* a || d
OrElse(x, d) == IF Falsy(x) THEN d ELSE x

\* a parsed JSON object; a key the JSON text lacks reads as undefined
Obj(score, summary, palette, flaws, positives, recs) ==
    [t |-> "object", score |-> score, summary |-> summary,
     color_palette |-> palette, design_flaws |-> flaws,
     positive_aspects |-> positives, recommendations |-> recs]

\* Array.prototype.join over an array of strings: the elements with the
\* separator between them
RECURSIVE JoinWords(_, _)
JoinWords(es, sep) ==
    IF es = <<>> THEN <<>>
    ELSE IF Len(es) = 1 THEN <<es[1]>>
    ELSE <<es[1], sep>> \o JoinWords(Tail(es), sep)

Join(a, sep) == Str(JoinWords(a.v, sep))

-----------------------------------------------------------------------------
(* What the provider answers to one call *)

\* error messages a provider call fails with
ErrRateLimit  == <<"rate", "limit", "exceeded">>
ErrQuota429   == <<"429", "insufficient_", "quota">>
ErrQuota      == <<"insufficient_", "quota">>
ErrAuth       == <<"401", "Unauthorized">>
ErrConnection == <<"Connection", "error">>

ErrorMessages == {ErrRateLimit, ErrQuota429, ErrQuota, ErrAuth, ErrConnection}

\* parsed values of the JSON texts a provider returns
RawFull ==
    Obj(Num(8), Str(<<"Good", "structure">>), Arr(<<"#FFFFFF">>), Arr(<<>>),
        Arr(<<"Clear headings">>), Arr(<<"Add meta description">>))
RawPartial ==
    Obj(Num(7), Str(<<"Fine">>), Undef, Undef, Arr(<<"Clear headings">>), Undef)
RawEmpty == Obj(Undef, Undef, Undef, Undef, Undef, Undef)
RawZero  == Obj(Num(0), Str(<<>>), Arr(<<>>), Arr(<<"Low contrast", "Tiny text">>),
                Arr(<<>>), Arr(<<>>))

RawPartialBlank ==
    Obj(Num(7), Str(<<>>), Undef, Undef, Arr(<<"Clear headings">>), Undef)

RawOver ==
    Obj(Num(11), Str(<<"Fine">>), Arr(<<>>), Arr(<<>>), Arr(<<>>), Arr(<<>>))

JsonValues == {RawFull, RawPartial, RawPartialBlank, RawEmpty, RawZero, RawOver, Null}

\* response texts that are not JSON
TextRateLimit == <<"rate", "limit", "exceeded">>
TextSorry     == <<"Sorry">>

NonJsonTexts == {TextRateLimit, TextSorry}

JsonContent(v)  == [json |-> TRUE, value |-> v, text |-> <<>>]
TextContent(ws) == [json |-> FALSE, value |-> Undef, text |-> ws]

Contents == {JsonContent(v) : v \in JsonValues} \cup {TextContent(ws) : ws \in NonJsonTexts}

Failure(msg)  == [kind |-> "error", message |-> msg, content |-> TextContent(<<>>)]
Response(c)   == [kind |-> "response", message |-> <<>>, content |-> c]

Answers == {Failure(m) : m \in ErrorMessages} \cup {Response(c) : c \in Contents}

-----------------------------------------------------------------------------
(* JSON.parse of the response text *)

\* the SyntaxError Node 20 (the runtime of the actor's image) raises quotes the
\* text it could not parse: Unexpected token 'r', "rate limit exceeded" is not
\* valid JSON
ParseErrorMessage(text) ==
    <<"Unexpected", "token">> \o text \o <<"is", "not", "valid", "JSON">>

ParseReturned(v)  == [ok |-> TRUE, value |-> v, error |-> <<>>]
ParseThrown(msg)  == [ok |-> FALSE, value |-> Undef, error |-> msg]

JSONParse(c) ==
    IF c.json THEN ParseReturned(c.value) ELSE ParseThrown(ParseErrorMessage(c.text))

\* what the body of a try block (the provider call, then JSON.parse of its
\* content) comes to for one provider answer
TryCallAndParse(answer) ==
    IF answer.kind = "error" THEN ParseThrown(answer.message)
    ELSE JSONParse(answer.content)

-----------------------------------------------------------------------------
(* ANALYSIS_PROMPTS and the choice of the instruction *)

\* the seven keys of ANALYSIS_PROMPTS
DefinedCategories ==
    {"general", "accessibility", "conversion", "performance", "seo",
     "mobile-first", "brand-consistency"}

\* the instruction of each key, by its opening sentence
ANALYSIS_PROMPTS ==
    [c \in DefinedCategories |->
        CASE c = "general"           -> <<"You", "are", "a", "world-class", "UI/UX", "Designer.">>
          [] c = "accessibility"     -> <<"You", "are", "a", "WCAG", "accessibility", "expert.">>
          [] c = "conversion"        -> <<"You", "are", "a", "CRO", "expert.">>
          [] c = "performance"       -> <<"You", "are", "a", "web", "performance", "expert.">>
          [] c = "seo"               -> <<"You", "are", "an", "SEO", "expert.">>
          [] c = "mobile-first"      -> <<"You", "are", "a", "mobile", "UX", "specialist.">>
          [] c = "brand-consistency" -> <<"You", "are", "a", "brand", "identity", "expert.">>]

\* names every object literal inherits from Object.prototype
ObjectPrototypeKeys == {"constructor", "toString"}

\* category strings an input carries: the seven keys, strings that name
\* nothing, and names an object literal inherits
Categories == DefinedCategories \cup {"", "ux"} \cup ObjectPrototypeKeys

Fun(name) == [t |-> "function", v |-> name]

\* ANALYSIS_PROMPTS[analysisType]: the own property, else the inherited
\* one, else undefined
LookupPrompt(type) ==
    IF type \in DefinedCategories THEN Str(ANALYSIS_PROMPTS[type])
    ELSE IF type \in ObjectPrototypeKeys THEN Fun(type)
    ELSE Undef

\* const prompt = ANALYSIS_PROMPTS[analysisType] || ANALYSIS_PROMPTS.general
SelectPrompt(type) == OrElse(LookupPrompt(type), Str(ANALYSIS_PROMPTS["general"]))

\* `${prompt}`: the text the template literal puts into the message
PromptText(prompt) ==
    IF prompt.t = "string" THEN prompt.v
    ELSE IF prompt.t = "function"
    THEN <<"function", prompt.v, "()", "{", "[native", "code]", "}">>
    ELSE <<prompt.t>>

GeminiModel == "gemini-1.5-flash-latest"

NoClient == [sdk |-> "none"]

-----------------------------------------------------------------------------
(* analyzeWithOpenAI: the retry loop *)

\* a loop that runs one iteration too many
maxRetriesOneMore == 3 + 1

maxRetries == 3

RECURSIVE Pow2(_)
Pow2(n) == IF n = 0 THEN 1 ELSE 2 * Pow2(n - 1)

\* a catch block that retries whatever the error
IsRateLimitErrorAlways(msg) == TRUE

\* the rate-limit test of the catch block
IsRateLimitError(msg) ==
    Includes(msg, <<"429">>) \/ Includes(msg, <<"rate", "limit">>)

\* a backoff that starts at 1 s: Math.pow(2, attempt - 1)
WaitSecondsFromOne(attempt) == Pow2(attempt - 1)

\* seconds slept after a rate-limited attempt: Math.pow(2, attempt) * 1000 ms
WaitSeconds(attempt) == Pow2(attempt)

\* a final error that drops the cause
ExhaustedMessageNoCause(last) == <<"API", "failed", "after", "3", "attempts.">>

ExhaustedMessage(last) ==
    <<"API", "failed", "after", "3", "attempts.", "Last", "error:">> \o last

-----------------------------------------------------------------------------
(* requestHandler: error classification and the records it pushes *)

MsgInvalidKey    == <<"Invalid", "API", "Key", "provided.">>
MsgRateLimited   == <<"Rate", "limit", "exceeded.">>
MsgQuotaExceeded == <<"API", "quota", "exceeded.">>
MsgNullResult    == <<"Cannot", "read", "properties", "of", "null">>
MsgCapture       == <<"page.goto:", "Timeout", "30000ms", "exceeded.">>
MsgPush          == <<"pushData", "failed">>

\* a classification that tests the quota indicators ahead of the rate-limit
\* ones
ClassifyApiErrorQuotaFirst(msg) ==
    IF Includes(msg, <<"401">>) \/ Includes(msg, <<"authentication">>)
    THEN MsgInvalidKey
    ELSE IF Includes(msg, <<"insufficient_", "quota">>) \/ Includes(msg, <<"quota">>)
    THEN MsgQuotaExceeded
    ELSE IF Includes(msg, <<"429">>) \/ Includes(msg, <<"rate", "limit">>)
    THEN MsgRateLimited
    ELSE <<"AI", "analysis", "failed:">> \o msg

\* the message of the error the inner catch block throws for an apiError
ClassifyApiError(msg) ==
    IF Includes(msg, <<"401">>) \/ Includes(msg, <<"authentication">>)
    THEN MsgInvalidKey
    ELSE IF Includes(msg, <<"429">>) \/ Includes(msg, <<"rate", "limit">>)
    THEN MsgRateLimited
    ELSE IF Includes(msg, <<"insufficient_", "quota">>) \/ Includes(msg, <<"quota">>)
    THEN MsgQuotaExceeded
    ELSE <<"AI", "analysis", "failed:">> \o msg

DefaultSummary == Str(<<"No", "summary", "available">>)

\* auditResult without the || defaults
AuditRecordNoDefaults(u, type, r) ==
    [kind |-> "audit", url |-> u, ai_provider |-> type,
     overall_score      |-> r.score,
     ai_summary         |-> r.summary,
     color_palette      |-> r.color_palette,
     design_flaws       |-> r.design_flaws,
     positive_aspects   |-> r.positive_aspects,
     ai_recommendations |-> r.recommendations,
     overall_ux         |-> r.score]

\* auditResult, its AI part
AuditRecord(u, type, r) ==
    [kind |-> "audit", url |-> u, ai_provider |-> type,
     overall_score      |-> OrElse(r.score, Num(0)),
     ai_summary         |-> OrElse(r.summary, DefaultSummary),
     color_palette      |-> OrElse(r.color_palette, Arr(<<>>)),
     design_flaws       |-> OrElse(r.design_flaws, Arr(<<>>)),
     positive_aspects   |-> OrElse(r.positive_aspects, Arr(<<>>)),
     ai_recommendations |-> OrElse(r.recommendations, Arr(<<>>)),
     overall_ux         |-> OrElse(r.score, Num(0))]

\* flattenedResult, its AI part, pushed with _type 'flattened_report'
FlattenedRecord(u, type, r) ==
    [kind |-> "flattened_report", url |-> u, ai_provider |-> type,
     score           |-> OrElse(r.score, Num(0)),
     summary         |-> OrElse(r.summary, DefaultSummary),
     palette         |-> Join(OrElse(r.color_palette, Arr(<<>>)), ", "),
     issues          |-> Join(OrElse(r.design_flaws, Arr(<<>>)), " | "),
     positives       |-> Join(OrElse(r.positive_aspects, Arr(<<>>)), " | "),
     recommendations |-> Join(OrElse(r.recommendations, Arr(<<>>)), " | ")]

FailedRecord(u, msg) ==
    [kind |-> "failed", url |-> u, status |-> "FAILED", error |-> msg]

-----------------------------------------------------------------------------
(* The heuristic analyzers of a page *)

Analyzers ==
    {"technologies", "performance", "accessibility", "mobile", "seo",
     "content", "conversion"}

\* what the analyzers are run on: the counts page.evaluate measures, whether
\* the page has the React global, the score the other five analyzers come to,
\* and the analyzers whose page.evaluate rejects
PageOf(images, scripts, stylesheets, react, failing) ==
    [imageCount |-> images, scriptCount |-> scripts, stylesheetCount |-> stylesheets,
     react |-> react, score |-> 5, failing |-> failing]

PlainPage == PageOf(0, 0, 0, FALSE, {})

\* pages on either side of each threshold of analyzePerformance, with no
\* analyzer, one analyzer or every analyzer failing
Pages ==
    { PageOf(i, s, c, r, f) :
        i \in {50, 51}, s \in {20, 21}, c \in {10, 11}, r \in BOOLEAN,
        f \in {{}} \cup {{a} : a \in Analyzers} \cup {Analyzers} }

Max(a, b) == IF a >= b THEN a ELSE b

\* the object detectTechnologies starts from
DefaultTechnologies ==
    [frontend_framework |-> "null", security |-> <<>>, performance |-> <<>>]

\* detectTechnologies: page.evaluate rejects and the initial object is
\* returned; or the object is filled from the page's data up to the read of
\* window.location, which throws a ReferenceError in Node, and the catch
\* block returns the object as filled so far
detectTechnologies(page) ==
    IF "technologies" \in page.failing
    THEN [value |-> DefaultTechnologies, threw |-> TRUE]
    ELSE [value |-> [DefaultTechnologies EXCEPT
                        !.frontend_framework = IF page.react THEN "React" ELSE "null"],
          threw |-> TRUE]

\* the object analyzePerformance starts from
DefaultPerformance ==
    [image_count |-> 0, script_count |-> 0, stylesheet_count |-> 0,
     performance_score |-> 0]

\* Object.assign(performance, perfData): perfData's keys are imageCount,
\* scriptCount and stylesheetCount, which are added beside the snake_case
\* keys of the initial object
AssignPerfData(performance, page) ==
    [image_count       |-> performance.image_count,
     script_count      |-> performance.script_count,
     stylesheet_count  |-> performance.stylesheet_count,
     performance_score |-> performance.performance_score,
     imageCount        |-> page.imageCount,
     scriptCount       |-> page.scriptCount,
     stylesheetCount   |-> page.stylesheetCount]

\* the score analyzePerformance computes from the object's counts
PerformanceScore(performance) ==
    Max(1, 10 - (IF performance.image_count > 50 THEN 2 ELSE 0)
              - (IF performance.script_count > 20 THEN 1 ELSE 0)
              - (IF performance.stylesheet_count > 10 THEN 1 ELSE 0))

analyzePerformance(page) ==
    IF "performance" \in page.failing
    THEN [value |-> DefaultPerformance, threw |-> TRUE]
    ELSE LET assigned == AssignPerfData(DefaultPerformance, page)
         IN  [value |-> [assigned EXCEPT !.performance_score = PerformanceScore(assigned)],
              threw |-> FALSE]

\* analyzeAccessibility, analyzeMobileResponsiveness, analyzeSEO,
\* analyzeContent and analyzeConversion, by their score: the initial 0 when
\* page.evaluate rejects
DefaultScore == [score |-> 0]

analyzeByScore(a, page) ==
    IF a \in page.failing
    THEN [value |-> DefaultScore, threw |-> TRUE]
    ELSE [value |-> [score |-> page.score], threw |-> FALSE]

\* the seven calls of requestHandler, one after the other
Analyze(page) ==
    [a \in Analyzers |->
        CASE a = "technologies" -> detectTechnologies(page)
          [] a = "performance"  -> analyzePerformance(page)
          [] OTHER              -> analyzeByScore(a, page)]

NoMetrics == [a \in Analyzers |-> [value |-> DefaultScore, threw |-> FALSE]]

-----------------------------------------------------------------------------
(* The run: Actor.main, the crawler's worker pool and requestHandler *)

\* credentials a run is started with: one of each kind, a malformed one and
\* a missing one
RunKeys ==
    { PrefixOpenRouter \o <<"x">>, PrefixOpenAI \o <<"x">>,
      PrefixGemini \o <<"x">>, <<"x">>, <<>> }

IdleHandler ==
    [pc |-> "pending", attempt |-> 0, calls |-> 0, sleeps |-> <<>>,
     answers |-> <<>>, lastError |-> <<>>, aiResult |-> Undef, apiError |-> <<>>,
     shape |-> "none", client |-> NoClient, model |-> Undefined, prompt |-> <<>>,
     page |-> PlainPage, metrics |-> NoMetrics]

\* what the provider of a whole run answers: one answer of each way the
\* handler can end, and one rate-limit error
RunAnswers ==
    { Failure(ErrRateLimit), Failure(ErrAuth),
      Response(JsonContent(RawFull)), Response(TextContent(TextSorry)) }

\* the categories runs are started with
RunCategories == {"general", "seo"}

\* a run over one to NumUrls start URLs
Init ==
    /\ inputGiven \in BOOLEAN
    /\ useFreeMode = FALSE
    /\ usageTracker = [count |-> 0]
    /\ apiKey \in RunKeys
    /\ startUrls \in {1..n : n \in 0..NumUrls}
    /\ analysisType \in RunCategories
    /\ maxConcurrency \in 1..MaxConcurrencyInput
    /\ aiProvider = NoProvider
    /\ mainPc = "start"
    /\ mainError = <<>>
    /\ handler = [u \in startUrls |-> IdleHandler]
    /\ dataset = <<>>

\* a run over one start URL, handled by one worker
InitInvoke ==
    /\ inputGiven = TRUE
    /\ useFreeMode = FALSE
    /\ usageTracker = [count |-> 0]
    /\ apiKey \in RunKeys
    /\ startUrls = {1}
    /\ analysisType \in RunCategories
    /\ maxConcurrency = 1
    /\ aiProvider = NoProvider
    /\ mainPc = "start"
    /\ mainError = <<>>
    /\ handler = [u \in startUrls |-> IdleHandler]
    /\ dataset = <<>>

\* an Actor.main that takes the free-tier handle when no key is given
MainFreeFallback ==
    /\ mainPc = "start"
    /\ LET resolved == initializeAIProvider(apiKey)
       IN  IF ~inputGiven
           THEN /\ mainPc' = "failed"
                /\ mainError' = MsgNoInput
                /\ aiProvider' = aiProvider
           ELSE IF startUrls = {}
           THEN /\ mainPc' = "failed"
                /\ mainError' = MsgNoUrls
                /\ aiProvider' = aiProvider
           ELSE IF apiKey = <<>>
           THEN /\ mainPc' = "crawling"
                /\ mainError' = mainError
                /\ aiProvider' = [type |-> "openrouter",
                                  client |-> OpenRouterClient(PrefixOpenRouter),
                                  model |-> "openai/gpt-4o-mini"]
           ELSE IF resolved.ok
           THEN /\ mainPc' = "crawling"
                /\ mainError' = mainError
                /\ aiProvider' = resolved.value
           ELSE /\ mainPc' = "failed"
                /\ mainError' = <<"Failed", "to", "initialize", "AI", "provider:">>
                                    \o resolved.error
                /\ aiProvider' = aiProvider
    /\ UNCHANGED <<inputGiven, useFreeMode, usageTracker, apiKey, startUrls, analysisType, maxConcurrency, handler, dataset>>

\* Actor.main up to crawler.run: the input checks and provider resolution
Main ==
    /\ mainPc = "start"
    /\ LET resolved == initializeAIProvider(apiKey)
       IN  IF ~inputGiven
           THEN /\ mainPc' = "failed"
                /\ mainError' = MsgNoInput
                /\ aiProvider' = aiProvider
           ELSE IF startUrls = {}
           THEN /\ mainPc' = "failed"
                /\ mainError' = MsgNoUrls
                /\ aiProvider' = aiProvider
           ELSE IF apiKey = <<>>
           THEN /\ mainPc' = "failed"
                /\ mainError' = MsgKeyRequired
                /\ aiProvider' = aiProvider
           ELSE IF resolved.ok
           THEN /\ mainPc' = "crawling"
                /\ mainError' = mainError
                /\ aiProvider' = resolved.value
           ELSE /\ mainPc' = "failed"
                /\ mainError' = <<"Failed", "to", "initialize", "AI", "provider:">>
                                    \o resolved.error
                /\ aiProvider' = aiProvider
    /\ UNCHANGED <<inputGiven, useFreeMode, usageTracker, apiKey, startUrls, analysisType, maxConcurrency, handler, dataset>>

\* the try block around initializeAIProvider in Actor.main, on its own
ResolveProvider ==
    /\ mainPc = "start"
    /\ LET resolved == initializeAIProvider(apiKey)
       IN  IF resolved.ok
           THEN /\ mainPc' = "crawling"
                /\ mainError' = mainError
                /\ aiProvider' = resolved.value
           ELSE /\ mainPc' = "failed"
                /\ mainError' = <<"Failed", "to", "initialize", "AI", "provider:">>
                                    \o resolved.error
                /\ aiProvider' = aiProvider
    /\ UNCHANGED <<inputGiven, useFreeMode, usageTracker, apiKey, startUrls, analysisType, maxConcurrency, handler, dataset>>

Running == {u \in startUrls : handler[u].pc \notin {"pending", "done"}}

\* the pool hands a URL to requestHandler, which awaits page.goto
StartRequest(u) ==
    /\ mainPc = "crawling"
    /\ handler[u].pc = "pending"
    /\ Cardinality(Running) < maxConcurrency
    /\ handler' = [handler EXCEPT ![u].pc = "capture"]
    /\ UNCHANGED <<inputGiven, useFreeMode, usageTracker, apiKey, startUrls, analysisType, maxConcurrency, aiProvider, mainPc, mainError, dataset>>

\* the crawler's own navigation to the URL, ahead of requestHandler, fails
\* on every try the crawler gives it: failedRequestHandler runs and logs
FailedRequest(u) ==
    /\ mainPc = "crawling"
    /\ handler[u].pc = "pending"
    /\ Cardinality(Running) < maxConcurrency
    /\ handler' = [handler EXCEPT ![u].pc = "done"]
    /\ UNCHANGED <<inputGiven, useFreeMode, usageTracker, apiKey, startUrls, analysisType, maxConcurrency, aiProvider, mainPc, mainError, dataset>>

\* a handler whose navigation or screenshot failure ends the whole run
CaptureAborts(u, pages) ==
    /\ handler[u].pc = "capture"
    /\ \E ok \in BOOLEAN, page \in pages :
         IF ok
         THEN /\ handler' = [handler EXCEPT ![u].pc = "invoke", ![u].attempt = 1,
                                            ![u].page = page,
                                            ![u].metrics = Analyze(page)]
              /\ dataset' = dataset
              /\ UNCHANGED <<mainPc, mainError>>
         ELSE /\ handler' = [handler EXCEPT ![u] = [IdleHandler EXCEPT !.pc = "done"]]
              /\ dataset' = Append(dataset, FailedRecord(u, MsgCapture))
              /\ mainPc' = "failed"
              /\ mainError' = MsgCapture
    /\ UNCHANGED <<inputGiven, useFreeMode, usageTracker, apiKey, startUrls, analysisType, maxConcurrency, aiProvider>>

\* navigation, the seven page analyses and the screenshot: they succeed and
\* the handler goes on to the AI call, or navigation or the screenshot throws
\* and the outer catch pushes the FAILED record; pages is the set of pages
\* the URL may show
Capture(u, pages) ==
    /\ handler[u].pc = "capture"
    /\ \E ok \in BOOLEAN, page \in pages :
         IF ok
         THEN /\ handler' = [handler EXCEPT ![u].pc = "invoke", ![u].attempt = 1,
                                            ![u].page = page,
                                            ![u].metrics = Analyze(page)]
              /\ dataset' = dataset
         ELSE /\ handler' = [handler EXCEPT ![u] = [IdleHandler EXCEPT !.pc = "done"]]
              /\ dataset' = Append(dataset, FailedRecord(u, MsgCapture))
    /\ UNCHANGED <<inputGiven, useFreeMode, usageTracker, apiKey, startUrls, analysisType, maxConcurrency, aiProvider, mainPc, mainError>>

\* a dispatch that sends every kind down the chat-completion path
IsChatAnyKind == aiProvider.type \in {"openai", "openrouter", "gemini"}

\* the handler's test for the chat-completion shape
IsChat == aiProvider.type \in {"openai", "openrouter"}

\* a loop that stores the parsed value and goes on to its next iteration
\* instead of returning
OpenAIAttemptKeepsGoing(u, provider) ==
    /\ handler[u].pc = "invoke"
    /\ IsChat
    /\ handler[u].attempt <= maxRetries
    /\ \E answer \in provider :
         LET h       == handler[u]
             outcome == TryCallAndParse(answer)
             called  == [h EXCEPT !.calls = h.calls + 1,
                                  !.answers = Append(h.answers, answer),
                                  !.shape = "chat",
                                  !.client = aiProvider.client,
                                  !.model = aiProvider.model,
                                  !.prompt = PromptText(SelectPrompt(analysisType))]
         IN  handler' = [handler EXCEPT ![u] =
                 IF outcome.ok
                 THEN IF h.attempt < maxRetries
                      THEN [called EXCEPT !.attempt = h.attempt + 1,
                                          !.aiResult = outcome.value]
                      ELSE [called EXCEPT !.pc = "returned", !.aiResult = outcome.value]
                 ELSE IF IsRateLimitError(outcome.error)
                 THEN [called EXCEPT !.pc = "sleeping",
                                     !.lastError = outcome.error,
                                     !.sleeps = Append(h.sleeps, WaitSeconds(h.attempt))]
                 ELSE [called EXCEPT !.pc = "threw",
                                     !.lastError = outcome.error,
                                     !.apiError = outcome.error]]
    /\ UNCHANGED <<inputGiven, useFreeMode, usageTracker, apiKey, startUrls, analysisType, maxConcurrency, aiProvider, mainPc, mainError, dataset>>

\* one iteration of the loop of analyzeWithOpenAI, up to its return, its
\* throw or the start of its backoff sleep; provider is the set of answers
\* the call may get
OpenAIAttempt(u, provider) ==
    /\ handler[u].pc = "invoke"
    /\ IsChat
    /\ handler[u].attempt <= maxRetries
    /\ \E answer \in provider :
         LET h       == handler[u]
             outcome == TryCallAndParse(answer)
             called  == [h EXCEPT !.calls = h.calls + 1,
                                  !.answers = Append(h.answers, answer),
                                  !.shape = "chat",
                                  !.client = aiProvider.client,
                                  !.model = aiProvider.model,
                                  !.prompt = PromptText(SelectPrompt(analysisType))]
         IN  handler' = [handler EXCEPT ![u] =
                 IF outcome.ok
                 THEN [called EXCEPT !.pc = "returned", !.aiResult = outcome.value]
                 ELSE IF IsRateLimitError(outcome.error)
                 THEN [called EXCEPT !.pc = "sleeping",
                                     !.lastError = outcome.error,
                                     !.sleeps = Append(h.sleeps, WaitSeconds(h.attempt))]
                 ELSE [called EXCEPT !.pc = "threw",
                                     !.lastError = outcome.error,
                                     !.apiError = outcome.error]]
    /\ UNCHANGED <<inputGiven, useFreeMode, usageTracker, apiKey, startUrls, analysisType, maxConcurrency, aiProvider, mainPc, mainError, dataset>>

\* a loop whose attempt counter is shared by the invocations in flight
BackoffElapsedShared(u) ==
    /\ handler[u].pc = "sleeping"
    /\ handler' = [w \in startUrls |->
           LET h == handler[w]
           IN  IF w = u
               THEN IF h.attempt + 1 <= maxRetries
                    THEN [h EXCEPT !.pc = "invoke", !.attempt = h.attempt + 1]
                    ELSE [h EXCEPT !.pc = "threw", !.attempt = h.attempt + 1,
                                   !.apiError = ExhaustedMessage(h.lastError)]
               ELSE IF h.pc \in {"invoke", "sleeping"}
                    THEN [h EXCEPT !.attempt = h.attempt + 1]
                    ELSE h]
    /\ UNCHANGED <<inputGiven, useFreeMode, usageTracker, apiKey, startUrls, analysisType, maxConcurrency, aiProvider, mainPc, mainError, dataset>>

\* the backoff timer fires: the loop goes to its next iteration, or ends and
\* the function throws the retries-exhausted error
BackoffElapsed(u) ==
    /\ handler[u].pc = "sleeping"
    /\ LET h == handler[u]
       IN  handler' = [handler EXCEPT ![u] =
               IF h.attempt + 1 <= maxRetries
               THEN [h EXCEPT !.pc = "invoke", !.attempt = h.attempt + 1]
               ELSE [h EXCEPT !.pc = "threw", !.attempt = h.attempt + 1,
                              !.apiError = ExhaustedMessage(h.lastError)]]
    /\ UNCHANGED <<inputGiven, useFreeMode, usageTracker, apiKey, startUrls, analysisType, maxConcurrency, aiProvider, mainPc, mainError, dataset>>

\* analyzeWithGemini: one generateContent call and JSON.parse of its text
GeminiCall(u, provider) ==
    /\ handler[u].pc = "invoke"
    /\ aiProvider.type = "gemini"
    /\ \E answer \in provider :
         LET h       == handler[u]
             outcome == TryCallAndParse(answer)
             called  == [h EXCEPT !.calls = h.calls + 1,
                                  !.answers = Append(h.answers, answer),
                                  !.shape = "vision",
                                  !.client = aiProvider.client,
                                  !.model = GeminiModel,
                                  !.prompt = PromptText(SelectPrompt(analysisType))]
         IN  handler' = [handler EXCEPT ![u] =
                 IF outcome.ok
                 THEN [called EXCEPT !.pc = "returned", !.aiResult = outcome.value]
                 ELSE [called EXCEPT !.pc = "threw", !.apiError = outcome.error]]
    /\ UNCHANGED <<inputGiven, useFreeMode, usageTracker, apiKey, startUrls, analysisType, maxConcurrency, aiProvider, mainPc, mainError, dataset>>

\* how the two Actor.pushData calls of the success path may go
PushOutcomes == {"ok", "first fails", "second fails"}

\* the handler after the invocation returned: both records are built and
\* pushed, auditResult first; reading a property of null throws into the
\* outer catch, and so does a pushData that fails; pushes is the set of ways
\* the two calls may go
Persist(u, pushes) ==
    /\ handler[u].pc = "returned"
    /\ \E push \in pushes :
         LET r == handler[u].aiResult
         IN  dataset' =
               IF r.t = "null"
               THEN Append(dataset, FailedRecord(u, MsgNullResult))
               ELSE IF push = "first fails"
               THEN Append(dataset, FailedRecord(u, MsgPush))
               ELSE IF push = "second fails"
               THEN dataset \o << AuditRecord(u, aiProvider.type, r),
                                  FailedRecord(u, MsgPush) >>
               ELSE dataset \o << AuditRecord(u, aiProvider.type, r),
                                  FlattenedRecord(u, aiProvider.type, r) >>
    /\ handler' = [handler EXCEPT ![u] = [IdleHandler EXCEPT !.pc = "done"]]
    /\ UNCHANGED <<inputGiven, useFreeMode, usageTracker, apiKey, startUrls, analysisType, maxConcurrency, aiProvider, mainPc, mainError>>

\* a handler that answers a failed invocation with an analysis made of the
\* default values
HandleApiErrorDemo(u) ==
    /\ handler[u].pc = "threw"
    /\ dataset' = Append(dataset, AuditRecord(u, aiProvider.type,
                                     Obj(Undef, Undef, Undef, Undef, Undef, Undef)))
    /\ handler' = [handler EXCEPT ![u] = [IdleHandler EXCEPT !.pc = "done"]]
    /\ UNCHANGED <<inputGiven, useFreeMode, usageTracker, apiKey, startUrls, analysisType, maxConcurrency, aiProvider, mainPc, mainError>>

\* the handler after the invocation threw: the inner catch classifies the
\* error and rethrows, the outer catch pushes the FAILED record
HandleApiError(u) ==
    /\ handler[u].pc = "threw"
    /\ dataset' = Append(dataset, FailedRecord(u, ClassifyApiError(handler[u].apiError)))
    /\ handler' = [handler EXCEPT ![u] = [IdleHandler EXCEPT !.pc = "done"]]
    /\ UNCHANGED <<inputGiven, useFreeMode, usageTracker, apiKey, startUrls, analysisType, maxConcurrency, aiProvider, mainPc, mainError>>

\* crawler.run resolves once every request was handled
Finish ==
    /\ mainPc = "crawling"
    /\ \A u \in startUrls : handler[u].pc = "done"
    /\ mainPc' = "completed"
    /\ UNCHANGED <<inputGiven, useFreeMode, usageTracker, apiKey, startUrls, analysisType, maxConcurrency, aiProvider, mainError, handler, dataset>>

Next ==
    \/ Main
    \/ \E u \in startUrls : StartRequest(u)
    \/ \E u \in startUrls : FailedRequest(u)
    \/ \E u \in startUrls : Capture(u, {PlainPage})
    \/ \E u \in startUrls : OpenAIAttempt(u, RunAnswers)
    \/ \E u \in startUrls : BackoffElapsed(u)
    \/ \E u \in startUrls : GeminiCall(u, RunAnswers)
    \/ \E u \in startUrls : Persist(u, {"ok"})
    \/ \E u \in startUrls : HandleApiError(u)
    \/ Finish

\* runs of one to NumUrls URLs against a provider that answers from RunAnswers
Spec == Init /\ [][Next]_vars

NextInvoke ==
    \/ Main
    \/ \E u \in startUrls : StartRequest(u)
    \/ \E u \in startUrls : FailedRequest(u)
    \/ \E u \in startUrls : Capture(u, {PlainPage})
    \/ \E u \in startUrls : OpenAIAttempt(u, Answers)
    \/ \E u \in startUrls : BackoffElapsed(u)
    \/ \E u \in startUrls : GeminiCall(u, Answers)
    \/ \E u \in startUrls : Persist(u, {"ok"})
    \/ \E u \in startUrls : HandleApiError(u)
    \/ Finish

\* one request against a provider that may give any answer of Answers
SpecInvoke == InitInvoke /\ [][NextInvoke]_vars

\* the same, where a provider call that is awaited returns and a timer that
\* was set fires
FairSpecInvoke == SpecInvoke /\ WF_vars(NextInvoke)

NextPush ==
    \/ Main
    \/ \E u \in startUrls : StartRequest(u)
    \/ \E u \in startUrls : FailedRequest(u)
    \/ \E u \in startUrls : Capture(u, {PlainPage})
    \/ \E u \in startUrls : OpenAIAttempt(u, RunAnswers)
    \/ \E u \in startUrls : BackoffElapsed(u)
    \/ \E u \in startUrls : GeminiCall(u, RunAnswers)
    \/ \E u \in startUrls : Persist(u, PushOutcomes)
    \/ \E u \in startUrls : HandleApiError(u)
    \/ Finish

\* one request whose Actor.pushData calls may fail
SpecPush == InitInvoke /\ [][NextPush]_vars

NextAnalyze ==
    \/ Main
    \/ \E u \in startUrls : StartRequest(u)
    \/ \E u \in startUrls : FailedRequest(u)
    \/ \E u \in startUrls : Capture(u, Pages)
    \/ \E u \in startUrls : OpenAIAttempt(u, RunAnswers)
    \/ \E u \in startUrls : BackoffElapsed(u)
    \/ \E u \in startUrls : GeminiCall(u, RunAnswers)
    \/ \E u \in startUrls : Persist(u, {"ok"})
    \/ \E u \in startUrls : HandleApiError(u)
    \/ Finish

\* one request for a URL that may show any page of Pages
SpecAnalyze == InitInvoke /\ [][NextAnalyze]_vars

\* one request under any category of Categories
InitPrompt ==
    /\ inputGiven = TRUE
    /\ useFreeMode = FALSE
    /\ usageTracker = [count |-> 0]
    /\ apiKey \in RunKeys
    /\ startUrls = {1}
    /\ analysisType \in Categories
    /\ maxConcurrency = 1
    /\ aiProvider = NoProvider
    /\ mainPc = "start"
    /\ mainError = <<>>
    /\ handler = [u \in startUrls |-> IdleHandler]
    /\ dataset = <<>>

SpecPrompt == InitPrompt /\ [][NextInvoke]_vars

\* whole runs in which awaited calls return and timers fire
FairSpec == Spec /\ WF_vars(Next)

\* provider resolution on its own: initializeAIProvider applied to any
\* credential of Keys
InitResolve ==
    /\ inputGiven = TRUE
    /\ useFreeMode = FALSE
    /\ usageTracker = [count |-> 0]
    /\ apiKey \in Keys
    /\ startUrls = {1}
    /\ analysisType = "general"
    /\ maxConcurrency = 1
    /\ aiProvider = NoProvider
    /\ mainPc = "start"
    /\ mainError = <<>>
    /\ handler = [u \in startUrls |-> IdleHandler]
    /\ dataset = <<>>

NextResolve == ResolveProvider

SpecResolve == InitResolve /\ [][NextResolve]_vars

-----------------------------------------------------------------------------
(* The revision with the free tier and its usage tracker *)

FREE_TIER_DAILY_LIMIT == 5

\* the handle of the free tier: the actor's own OpenRouter key
FreeTierHandle ==
    [type |-> "openrouter",
     client |-> [sdk |-> "OpenAI", apiKey |-> <<"FREE_TIER_OPENROUTER_KEY">>,
                 baseURL |-> "https://openrouter.ai/api/v1"],
     model |-> "google/gemini-2.0-flash-exp:free"]

\* initializeAIProvider(apiKey, useFreeMode) of this revision
initializeAIProviderFree(key, freeMode) ==
    IF freeMode THEN Returned(FreeTierHandle)
    ELSE IF key = <<>> THEN Returned(FreeTierHandle)
    ELSE IF StartsWith(key, PrefixOpenRouter)
    THEN Returned([type |-> "openrouter", client |-> OpenRouterClient(key),
                   model |-> "google/gemini-2.0-flash-exp:free"])
    ELSE IF StartsWith(key, PrefixOpenAI)
    THEN Returned([type |-> "openai", client |-> OpenAIClient(key),
                   model |-> "gpt-4o"])
    ELSE IF StartsWith(key, PrefixGemini)
    THEN Returned([type |-> "gemini", client |-> GeminiClient(key),
                   model |-> Undefined])
    ELSE Thrown(MsgInvalidFormat)

\* const isFreeMode, computed once in Actor.main after resolution
isFreeMode ==
    /\ aiProvider.type \in {"openrouter", "gemini"}
    /\ useFreeMode
    /\ apiKey = <<>>

\* usageTracker.canProcess() and usageTracker.getRemaining()
canProcess(tracker) == tracker.count < FREE_TIER_DAILY_LIMIT
getRemaining(tracker) == Max(0, FREE_TIER_DAILY_LIMIT - tracker.count)

\* a tracker whose increment stops at the limit
incrementCapped(tracker) ==
    [tracker EXCEPT !.count = IF @ < FREE_TIER_DAILY_LIMIT THEN @ + 1 ELSE @]

\* usageTracker.increment()
increment(tracker) == [tracker EXCEPT !.count = @ + 1]

LimitRecord(u) ==
    [kind |-> "limit", url |-> u, status |-> "LIMIT_REACHED"]

\* auditResult of this revision: its score and free_tier_remaining
FreeAuditRecord(u, type, r, remaining) ==
    [kind |-> "audit", url |-> u, ai_provider |-> type,
     score |-> OrElse(r.score, Num(0)),
     free_tier_remaining |-> remaining]

\* the record the outer catch of this revision pushes; its error text is
\* left out
FailedRecordFree(u) ==
    [kind |-> "failed", url |-> u, status |-> "FAILED"]

\* what the provider answers in runs of this revision
FreeAnswers ==
    { Response(JsonContent(RawFull)), Response(JsonContent(Null)), Failure(ErrAuth) }

\* a run of this revision: in free mode over NumFreeUrls start URLs, with
\* the free tier switched off or with the user's OpenAI key over NumUrls
InitFree ==
    /\ inputGiven = TRUE
    /\ usageTracker = [count |-> 0]
    /\ \/ /\ useFreeMode = TRUE
          /\ apiKey = <<>>
          /\ startUrls = 1..NumFreeUrls
       \/ /\ useFreeMode \in BOOLEAN
          /\ apiKey \in {<<>>, PrefixOpenAI \o <<"x">>}
          /\ ~(useFreeMode /\ apiKey = <<>>)
          /\ startUrls = 1..NumUrls
    /\ analysisType = "general"
    /\ maxConcurrency \in 1..MaxConcurrencyInput
    /\ aiProvider = NoProvider
    /\ mainPc = "start"
    /\ mainError = <<>>
    /\ handler = [u \in startUrls |-> IdleHandler]
    /\ dataset = <<>>

\* Actor.main of this revision up to crawler.run
MainFree ==
    /\ mainPc = "start"
    /\ LET resolved == initializeAIProviderFree(apiKey, useFreeMode)
       IN  IF ~inputGiven
           THEN /\ mainPc' = "failed"
                /\ mainError' = MsgNoInput
                /\ aiProvider' = aiProvider
           ELSE IF startUrls = {}
           THEN /\ mainPc' = "failed"
                /\ mainError' = MsgNoUrls
                /\ aiProvider' = aiProvider
           ELSE IF resolved.ok
           THEN /\ mainPc' = "crawling"
                /\ mainError' = mainError
                /\ aiProvider' = resolved.value
           ELSE /\ mainPc' = "failed"
                /\ mainError' = <<"Failed", "to", "initialize", "AI", "provider:">>
                                    \o resolved.error
                /\ aiProvider' = aiProvider
    /\ UNCHANGED <<inputGiven, useFreeMode, usageTracker, apiKey, startUrls, analysisType, maxConcurrency, handler, dataset>>

\* the pool hands the next URL of the queue to requestHandler: the limit
\* check, and then either the LIMIT_REACHED record or the wait for page.goto
StartFree(u) ==
    /\ mainPc = "crawling"
    /\ handler[u].pc = "pending"
    /\ \A w \in startUrls : w < u => handler[w].pc # "pending"
    /\ Cardinality(Running) < maxConcurrency
    /\ IF isFreeMode /\ ~canProcess(usageTracker)
       THEN /\ dataset' = Append(dataset, LimitRecord(u))
            /\ handler' = [handler EXCEPT ![u].pc = "done"]
       ELSE /\ dataset' = dataset
            /\ handler' = [handler EXCEPT ![u].pc = "capture"]
    /\ UNCHANGED <<inputGiven, useFreeMode, usageTracker, apiKey, startUrls, analysisType, maxConcurrency, aiProvider, mainPc, mainError>>

\* the rest of requestHandler of this revision, from page.goto on: when the
\* navigation or the screenshot throws, the outer catch pushes the FAILED
\* record; otherwise the provider is called, and when the awaited
\* analyzeWithOpenAI / analyzeWithGemini returns, the counter is incremented in
\* free mode and the record is built and pushed; when it throws, or when
\* reading aiResult.score of a null result throws, the FAILED record is pushed
AnalyzeFree(u, provider) ==
    /\ handler[u].pc = "capture"
    /\ \E captured \in BOOLEAN, answer \in provider :
         LET outcome == TryCallAndParse(answer)
             tracker == IF captured /\ outcome.ok /\ isFreeMode
                        THEN increment(usageTracker) ELSE usageTracker
         IN  /\ usageTracker' = tracker
             /\ dataset' = Append(dataset,
                   IF ~captured \/ ~outcome.ok \/ outcome.value.t = "null"
                   THEN FailedRecordFree(u)
                   ELSE FreeAuditRecord(u, aiProvider.type, outcome.value,
                            IF isFreeMode THEN Num(getRemaining(tracker)) ELSE Null))
             /\ handler' = [handler EXCEPT ![u].pc = "done",
                                ![u].aiResult = IF captured /\ outcome.ok
                                                THEN outcome.value ELSE @]
    /\ UNCHANGED <<inputGiven, useFreeMode, apiKey, startUrls, analysisType, maxConcurrency, aiProvider, mainPc, mainError>>

NextFree ==
    \/ MainFree
    \/ \E u \in startUrls : StartFree(u)
    \/ \E u \in startUrls : AnalyzeFree(u, FreeAnswers)
    \/ Finish

SpecFree == InitFree /\ [][NextFree]_vars

-----------------------------------------------------------------------------
(* Vocabulary of the properties *)

\* the message names a rate limit: it has '429' or 'rate limit' in it
NamesRateLimit(msg) == Includes(msg, <<"429">>) \/ Includes(msg, <<"rate", "limit">>)

\* the message names an exhausted quota
NamesQuota(msg) == Includes(msg, <<"quota">>)

RateLimitAnswer(a) == a.kind = "error" /\ NamesRateLimit(a.message)
OtherErrorAnswer(a) == a.kind = "error" /\ ~NamesRateLimit(a.message)
QuotaAnswer(a) == a.kind = "error" /\ NamesQuota(a.message)
JsonAnswer(a) == a.kind = "response" /\ a.content.json
NonJsonAnswer(a) == a.kind = "response" /\ ~a.content.json

NoPrefix(key) ==
    /\ ~StartsWith(key, PrefixOpenRouter)
    /\ ~StartsWith(key, PrefixOpenAI)
    /\ ~StartsWith(key, PrefixGemini)

Ended(h) == h.pc \in {"returned", "threw"}

SixFields ==
    {"overall_score", "ai_summary", "color_palette", "design_flaws",
     "positive_aspects", "ai_recommendations"}

-----------------------------------------------------------------------------
(* Properties *)

\* C1: a credential that starts with 'sk-or-' resolves to a handle of kind
\* 'openrouter', never to one of kind 'openai'.
C1_OpenRouterBeforeOpenAI ==
    (mainPc # "start" /\ StartsWith(apiKey, PrefixOpenRouter))
        => (mainPc = "crawling" /\ aiProvider.type = "openrouter")

C1_Witness ==
    /\ mainPc = "crawling"
    /\ StartsWith(apiKey, PrefixOpenRouter)
    /\ StartsWith(apiKey, PrefixOpenAI)
    /\ aiProvider.type = "openrouter"

\* C2: two rate-limit errors and then a valid JSON response: the invocation
\* returns that response's value after exactly three calls, having slept 2 s
\* and then 4 s and no more.
C2_SucceedsOnThirdAttempt ==
    \A u \in startUrls :
        LET h == handler[u]
        IN  ( /\ IsChat
              /\ Len(h.answers) = 3
              /\ RateLimitAnswer(h.answers[1])
              /\ RateLimitAnswer(h.answers[2])
              /\ JsonAnswer(h.answers[3]) )
            => ( /\ h.pc = "returned"
                 /\ h.aiResult = h.answers[3].content.value
                 /\ h.calls = 3
                 /\ h.sleeps = <<2, 4>> )

C2_Witness ==
    \E u \in startUrls :
        /\ IsChat
        /\ handler[u].pc = "returned"
        /\ Len(handler[u].answers) = 3
        /\ RateLimitAnswer(handler[u].answers[1])
        /\ RateLimitAnswer(handler[u].answers[2])
        /\ handler[u].sleeps = <<2, 4>>
        /\ handler[u].aiResult = RawFull

\* C3: three rate-limit errors in three attempts: the invocation never returns
\* a result, and the error it ends with is the retries-exhausted error with
\* the message of the third error in it.
C3_ExhaustedAfterThreeRateLimits ==
    \A u \in startUrls :
        LET h == handler[u]
        IN  ( /\ IsChat
              /\ Len(h.answers) = 3
              /\ \A i \in 1..3 : RateLimitAnswer(h.answers[i]) )
            => ( /\ h.pc \in {"sleeping", "threw"}
                 /\ h.aiResult = Undef
                 /\ h.calls = 3
                 /\ h.pc = "threw" =>
                        h.apiError =
                            <<"API", "failed", "after", "3", "attempts.", "Last", "error:">>
                                \o h.answers[3].message )

C3_Witness ==
    \E u \in startUrls :
        /\ IsChat
        /\ handler[u].pc = "threw"
        /\ Len(handler[u].answers) = 3
        /\ \A i \in 1..3 : RateLimitAnswer(handler[u].answers[i])
        /\ handler[u].answers[3].message # handler[u].answers[1].message

\* C4: a first call that fails with an error naming no rate limit: the
\* invocation fails at once with that error, after one call and no sleep.
C4_OtherErrorFailsAtOnce ==
    \A u \in startUrls :
        LET h == handler[u]
        IN  ( /\ IsChat
              /\ Len(h.answers) >= 1
              /\ OtherErrorAnswer(h.answers[1]) )
            => ( /\ h.pc = "threw"
                 /\ h.apiError = h.answers[1].message
                 /\ h.calls = 1
                 /\ Len(h.answers) = 1
                 /\ h.sleeps = <<>> )

C4_Witness ==
    \E u \in startUrls :
        /\ IsChat
        /\ handler[u].pc = "threw"
        /\ handler[u].calls = 1
        /\ OtherErrorAnswer(handler[u].answers[1])

\* C5: a response whose content is not valid JSON, whatever its text, ends
\* the invocation in failure: no provider call and no sleep follows it, on
\* the chat-completion path as on the native-vision path.
C5_MalformedNeverRetried ==
    \A u \in startUrls :
        LET h == handler[u]
        IN  \A i \in 1..Len(h.answers) :
                NonJsonAnswer(h.answers[i])
                    => ( /\ i = Len(h.answers)
                         /\ h.pc = "threw"
                         /\ Len(h.sleeps) < i )

\* C7: the native-vision path makes exactly one provider call per invocation;
\* a failed call, a rate-limit error included, is surfaced with no retry and
\* no backoff sleep.
C7_GeminiSingleCall ==
    \A u \in startUrls :
        LET h == handler[u]
        IN  aiProvider.type = "gemini"
            => ( /\ h.calls <= 1
                 /\ h.sleeps = <<>>
                 /\ h.pc # "sleeping"
                 /\ Ended(h) => h.calls = 1
                 /\ (h.calls = 1 /\ h.answers[1].kind = "error")
                        => (h.pc = "threw" /\ h.apiError = h.answers[1].message) )

C7_Witness ==
    \E u \in startUrls :
        /\ aiProvider.type = "gemini"
        /\ handler[u].pc = "threw"
        /\ handler[u].calls = 1
        /\ RateLimitAnswer(handler[u].answers[1])

\* C8: on the chat-completion path an error that reports an exhausted quota,
\* also one whose message carries the status 429 as well, is never retried:
\* the invocation fails after the single call that produced it.
C8_QuotaNeverRetried ==
    \A u \in startUrls :
        LET h == handler[u]
        IN  IsChat =>
            \A i \in 1..Len(h.answers) :
                QuotaAnswer(h.answers[i])
                    => ( /\ i = Len(h.answers)
                         /\ h.pc = "threw"
                         /\ Len(h.sleeps) < i )

C9_WitnessEmpty ==
    /\ mainPc = "failed"
    /\ apiKey = <<>>

\* C6: one chat-completion invocation makes at least 1 and at most 3 provider
\* calls whatever the provider answers, and once started it ends, with a
\* result or with a failure.
C6_BoundedCallsAndTermination ==
    /\ [](\A u \in 1..NumUrls :
             (u \in startUrls /\ IsChat)
                 => ( /\ handler[u].calls <= 3
                      /\ Ended(handler[u]) => handler[u].calls >= 1 ))
    /\ \A u \in 1..NumUrls :
          (u \in startUrls /\ IsChat /\ handler[u].pc = "invoke")
              ~> (u \in startUrls /\ Ended(handler[u]))

C6_Witness ==
    \E u \in startUrls :
        /\ IsChat
        /\ handler[u].pc = "threw"
        /\ handler[u].calls = 3

AllSixValid(r) ==
    /\ r.t = "object"
    /\ r.score.t = "number"
    /\ r.summary.t = "string"
    /\ \A f \in {"color_palette", "design_flaws", "positive_aspects", "recommendations"} :
          r[f].t = "array"

\* C11: a response with all six keys and values of the valid types comes out
\* of normalization with each of the six values unchanged (the scenario with
\* a Gemini key and category 'seo' included).
C11_RoundTrip ==
    [][\A u \in startUrls :
          ( /\ handler[u].pc = "returned"
            /\ AllSixValid(handler[u].aiResult)
            /\ handler'[u].pc = "done" )
          => LET r   == handler[u].aiResult
                 rec == dataset'[Len(dataset) + 1]
             IN  /\ rec.kind = "audit"
                 /\ rec.overall_score = r.score
                 /\ rec.ai_summary = r.summary
                 /\ rec.color_palette = r.color_palette
                 /\ rec.design_flaws = r.design_flaws
                 /\ rec.positive_aspects = r.positive_aspects
                 /\ rec.ai_recommendations = r.recommendations
      ]_vars

\* C12: a response that lacks color_palette, design_flaws and recommendations
\* and has score, summary and positive_aspects is normalized to the empty
\* sequence in those three fields and to its own values in the other three.
C12_DefaultsForExactlyThree ==
    [][\A u \in startUrls :
          ( /\ handler[u].pc = "returned"
            /\ handler[u].aiResult.t = "object"
            /\ handler[u].aiResult.color_palette = Undef
            /\ handler[u].aiResult.design_flaws = Undef
            /\ handler[u].aiResult.recommendations = Undef
            /\ handler[u].aiResult.score.t = "number"
            /\ handler[u].aiResult.summary.t = "string"
            /\ handler[u].aiResult.positive_aspects.t = "array"
            /\ handler'[u].pc = "done" )
          => LET r   == handler[u].aiResult
                 rec == dataset'[Len(dataset) + 1]
             IN  /\ rec.kind = "audit"
                 /\ rec.color_palette = Arr(<<>>)
                 /\ rec.design_flaws = Arr(<<>>)
                 /\ rec.ai_recommendations = Arr(<<>>)
                 /\ rec.overall_score = r.score
                 /\ rec.ai_summary = r.summary
                 /\ rec.positive_aspects = r.positive_aspects
      ]_vars

\* C13: the score of every persisted analysis result is a number from 1 to
\* 10, whatever score the provider's JSON carries.
C13_ScoreInRange ==
    \A i \in 1..Len(dataset) :
        dataset[i].kind = "audit"
            => ( /\ dataset[i].overall_score.t = "number"
                 /\ dataset[i].overall_score.v \in 1..10
                 /\ dataset[i].overall_ux = dataset[i].overall_score )

\* the records of the dataset that are about URL u
RecordsOf(ds, u) == SelectSeq(ds, LAMBDA rec : rec.url = u)

\* the message says what went wrong with the invocation: it is one of the
\* three messages for known provider errors, or it quotes the error
CarriesError(msg, apiError) ==
    \/ msg \in {MsgInvalidKey, MsgRateLimited, MsgQuotaExceeded}
    \/ /\ apiError # <<>>
       /\ Includes(msg, apiError)

\* C14: when the AI invocation for a URL fails, the only record written for
\* the URL has status 'FAILED' and carries the error message; no record with
\* analysis values, default or other, is written for it.
C14_FailureNeverDowngraded ==
    [][\A u \in startUrls :
          (handler[u].pc = "threw" /\ handler'[u].pc = "done")
          => LET recs == RecordsOf(dataset', u)
             IN  /\ Len(recs) = 1
                 /\ recs[1].kind = "failed"
                 /\ recs[1].status = "FAILED"
                 /\ CarriesError(recs[1].error, handler[u].apiError)
      ]_vars

\* a run of two URLs that ended: the invocation of one failed on the
\* provider's authentication error and left its one FAILED record
C14_Witness ==
    /\ mainPc = "completed"
    /\ Cardinality(startUrls) = 2
    /\ \E u \in startUrls :
          /\ Len(RecordsOf(dataset, u)) = 1
          /\ RecordsOf(dataset, u)[1].kind = "failed"
          /\ RecordsOf(dataset, u)[1].error = MsgInvalidKey

\* C15: a failure while one URL is processed does not abort the run: once
\* the crawl has started, every start URL is handled to its end and the run
\* completes.
C15_FailureIsolation ==
    \A u \in 1..NumUrls :
        (u \in startUrls /\ mainPc = "crawling")
            ~> (mainPc = "completed" /\ u \in startUrls /\ handler[u].pc = "done")

\* a completed run of two URLs: one URL failed and has its FAILED record, the
\* other was audited all the same
C15_Witness ==
    /\ mainPc = "completed"
    /\ \E u, w \in startUrls :
          /\ u # w
          /\ \E i \in 1..Len(dataset) :
                dataset[i].url = u /\ dataset[i].kind = "failed"
          /\ \E i \in 1..Len(dataset) :
                dataset[i].url = w /\ dataset[i].kind = "audit"

\* C16: every start URL of a run that completed has at least one record in
\* the dataset, a FAILED one when its page did not load in time.
C16_EveryUrlHasRecord ==
    mainPc = "completed"
        => \A u \in startUrls : Len(RecordsOf(dataset, u)) >= 1

\* what an invocation that ended shows of itself: its number of calls, its
\* backoff delays and its outcome
Course(h) ==
    [calls |-> h.calls, sleeps |-> h.sleeps, pc |-> h.pc,
     aiResult |-> h.aiResult, apiError |-> h.apiError]

\* C17: under any interleaving of concurrent chat-completion invocations on
\* one handle, the attempts, backoff delays and outcome of an invocation are
\* a function of the provider's answers to its own calls, and no step of one
\* invocation changes the state of another.
C17_InvocationsIndependent ==
    /\ [](IsChat =>
            \A u, w \in startUrls :
                ( /\ Ended(handler[u])
                  /\ Ended(handler[w])
                  /\ handler[u].answers = handler[w].answers )
                => Course(handler[u]) = Course(handler[w]))
    /\ [][\A u, w \in startUrls :
            (u # w /\ handler'[u] # handler[u]) => handler'[w] = handler[w]]_vars

\* two invocations in flight at once ended alike: each got a rate-limit
\* error and then a JSON answer, each slept 2 s once
C17_Witness ==
    /\ IsChat
    /\ \E u, w \in startUrls :
          /\ u # w
          /\ handler[u].pc = "returned"
          /\ handler[w].pc = "returned"
          /\ handler[u].calls = 2
          /\ handler[u].sleeps = <<2>>
          /\ handler[u].answers = handler[w].answers

\* the call shape that belongs to a kind of handle
ShapeOf(kind) == IF kind \in {"openai", "openrouter"} THEN "chat" ELSE "vision"

\* C18: the handle is resolved once, before any page is processed, and never
\* modified afterwards; every invocation uses the client and the model of the
\* handle and the call shape of its kind.
C18_HandleResolvedOnce ==
    [][ /\ mainPc = "start"
           => /\ aiProvider = NoProvider
              /\ dataset = <<>>
              /\ \A u \in startUrls : handler[u].pc = "pending"
        /\ mainPc # "start" => aiProvider' = aiProvider
        /\ \A u \in startUrls :
              handler'[u].shape # "none"
              => /\ handler'[u].client = aiProvider'.client
                 /\ handler'[u].shape = ShapeOf(aiProvider'.type)
                 /\ handler'[u].model = aiProvider'.model
      ]_vars

\* the fixed model of each kind of handle
DefaultModels ==
    [openrouter |-> {"openai/gpt-4o-mini"},
     openai     |-> {"gpt-4o"},
     gemini     |-> {GeminiModel}]

\* C19: every handle that resolution returns carries the model identifier
\* fixed for its kind, and every provider call is made with the handle's
\* model.
C19_HandleCarriesModel ==
    /\ aiProvider # NoProvider
          => /\ aiProvider.model # Undefined
             /\ aiProvider.model \in DefaultModels[aiProvider.type]
    /\ \A u \in startUrls :
          handler[u].calls > 0 => handler[u].model = aiProvider.model

\* C20: the instruction of a provider call is the category's own, non-empty
\* instruction when the category is one of the seven defined ones, and the
\* 'general' instruction for any other category string, on both paths.
C20_PromptSelection ==
    \A u \in startUrls :
        handler[u].shape \in {"chat", "vision"}
        => /\ handler[u].prompt # <<>>
           /\ handler[u].prompt =
                 IF analysisType \in DefinedCategories
                 THEN ANALYSIS_PROMPTS[analysisType]
                 ELSE ANALYSIS_PROMPTS["general"]

\* C21: on the chat-completion path a rate-limit error at attempt k is
\* followed by a sleep of 2^k seconds, and every sleep is followed by another
\* provider call: no invocation sleeps after its last attempt and then fails
\* without a call.
C21_EverySleepThenRetry ==
    [][\A u \in startUrls :
          /\ ( /\ handler[u].pc = "invoke"
               /\ IsChat
               /\ handler'[u].calls = handler[u].calls + 1
               /\ RateLimitAnswer(handler'[u].answers[handler'[u].calls]) )
             => /\ handler'[u].pc = "sleeping"
                /\ handler'[u].sleeps =
                      Append(handler[u].sleeps, 2 ^ handler[u].attempt)
          /\ (handler[u].pc = "sleeping" /\ handler'[u] # handler[u])
             => /\ handler'[u].pc = "invoke"
                /\ handler'[u].attempt <= 3
      ]_vars

\* C26: on the chat-completion path the attempt whose response parses ends
\* the invocation: it returns that attempt's parsed value with no further
\* sleep, and no provider call or sleep follows the return.
C26_ReturnsFirstParsedValue ==
    [][\A u \in startUrls :
          /\ ( /\ handler[u].pc = "invoke"
               /\ IsChat
               /\ handler'[u].calls = handler[u].calls + 1
               /\ JsonAnswer(handler'[u].answers[handler'[u].calls]) )
             => /\ handler'[u].pc = "returned"
                /\ handler'[u].aiResult =
                      handler'[u].answers[handler'[u].calls].content.value
                /\ handler'[u].sleeps = handler[u].sleeps
                /\ \A i \in 1..handler[u].calls : ~JsonAnswer(handler[u].answers[i])
          /\ (handler[u].pc = "returned" /\ handler'[u] # handler[u])
             => handler'[u].pc = "done"
      ]_vars

\* a rate-limit error, one sleep, and then the response whose value the
\* invocation returned
C26_Witness ==
    /\ IsChat
    /\ \E u \in startUrls :
          /\ handler[u].pc = "returned"
          /\ handler[u].calls = 2
          /\ RateLimitAnswer(handler[u].answers[1])
          /\ handler[u].sleeps = <<2>>
          /\ handler[u].aiResult = RawPartial
          /\ handler[u].answers[2] = Response(JsonContent(RawPartial))

\* the input is one the start-up checks reject
StartupFault ==
    \/ ~inputGiven
    \/ startUrls = {}
    \/ apiKey = <<>>
    \/ NoPrefix(apiKey)

\* C23: with no API key in the input the run resolves a handle (the free
\* tier's) and goes on to analyse the start URLs; it does not fail at
\* start-up.
C23_NoKeyFallsBackToFreeTier ==
    (inputGiven /\ startUrls # {} /\ apiKey = <<>> /\ mainPc # "start")
        => /\ mainPc \in {"crawling", "completed"}
           /\ aiProvider # NoProvider

NamesAuth(msg) == Includes(msg, <<"401">>) \/ Includes(msg, <<"authentication">>)

\* the class a failed invocation is to be reported under, by the priority
\* order authentication, rate limit, quota, generic
ReportedClass(msg) ==
    IF NamesAuth(msg) THEN "authentication"
    ELSE IF NamesRateLimit(msg) THEN "rate limit"
    ELSE IF Includes(msg, <<"insufficient_", "quota">>) \/ NamesQuota(msg) THEN "quota"
    ELSE "generic"

C27_NeverSuccessAndFailed ==
    \A u \in startUrls :
        ~ ( /\ \E i \in 1..Len(dataset) :
                  dataset[i].url = u /\ dataset[i].kind \in {"audit", "flattened_report"}
            /\ \E i \in 1..Len(dataset) :
                  dataset[i].url = u /\ dataset[i].kind = "failed" )

\* the object an analyzer starts from
InitialMetrics(a) ==
    CASE a = "technologies" -> DefaultTechnologies
      [] a = "performance"  -> DefaultPerformance
      [] OTHER              -> DefaultScore

\* C29: a failure inside one of the seven analyzers does not fail the audit:
\* the analyzer returns its initial default metrics, the handler goes on to
\* the screenshot and the AI invocation, and the success record is written
\* when the invocation succeeds.
C29_AnalyzerFailureContained ==
    [][\A u \in startUrls :
          /\ (handler[u].pc = "capture" /\ handler'[u].pc = "invoke")
             => \A a \in Analyzers :
                   handler'[u].metrics[a].threw
                       => handler'[u].metrics[a].value = InitialMetrics(a)
          /\ ( /\ handler[u].pc = "returned"
               /\ handler[u].aiResult.t = "object"
               /\ \E a \in Analyzers : handler[u].metrics[a].threw
               /\ handler'[u].pc = "done" )
             => /\ Len(dataset') = Len(dataset) + 2
                /\ dataset'[Len(dataset) + 1].kind = "audit"
                /\ dataset'[Len(dataset) + 1].url = u
      ]_vars

\* C30: the performance score of a successful analysis is 10 less 2 for more
\* than 50 images, less 1 for more than 20 scripts, less 1 for more than 10
\* stylesheets of the page: at most 8 for a page with more than 50 images,
\* and always from 1 to 10.
C30_PerformanceScoreFromCounts ==
    \A u \in startUrls :
        ( /\ handler[u].pc \in {"invoke", "sleeping", "returned", "threw"}
          /\ ~handler[u].metrics["performance"].threw )
        => LET pg == handler[u].page
               sc == handler[u].metrics["performance"].value.performance_score
           IN  /\ sc = 10 - (IF pg.imageCount > 50 THEN 2 ELSE 0)
                          - (IF pg.scriptCount > 20 THEN 1 ELSE 0)
                          - (IF pg.stylesheetCount > 10 THEN 1 ELSE 0)
               /\ pg.imageCount > 50 => sc <= 8
               /\ sc \in 1..10

-----------------------------------------------------------------------------
(* The free tier *)

\* a run asked to use the free tier: useFreeMode on and no key given
FreeRun == useFreeMode /\ apiKey = <<>>

\* the URLs whose AI analysis was performed: the awaited provider
\* invocation returned a result
Analysed == {u \in startUrls : handler[u].aiResult # Undef}

\* the handlers whose provider invocation settles in the step
Settling == {u \in startUrls : handler[u].pc = "capture" /\ handler'[u].pc = "done"}

\* the records the step appends to the dataset
Pushed == {dataset'[i] : i \in (Len(dataset) + 1)..Len(dataset')}

\* C22: in a free-mode run, whatever the interleaving of the concurrent
\* handlers, at most 5 AI analyses are performed, and a URL whose handler
\* starts once the limit is reached gets the LIMIT_REACHED record and never
\* reaches the provider
C22_AtMostFiveAnalyses ==
    [][FreeRun =>
         /\ Cardinality(Analysed') <= 5
         /\ \A u \in startUrls :
              /\ (handler[u].pc = "pending" /\ handler'[u].pc # "pending"
                     /\ usageTracker.count >= 5)
                   => /\ handler'[u].pc = "done"
                      /\ u \notin Analysed'
                      /\ Pushed = {[kind |-> "limit", url |-> u, status |-> "LIMIT_REACHED"]}
              /\ (usageTracker.count >= 5 /\ u \in Settling) => u \notin Analysed']_vars

\* C28: the usage counter starts at 0 and never decreases; a step adds
\* exactly 1 to it for each AI analysis that succeeds in it in a free-mode run
\* and leaves it unchanged otherwise (a failed analysis, a run outside free
\* mode); every audit record reports free_tier_remaining = max(0, 5 - count),
\* never negative, in free mode and null outside it
C28_UsageCounter ==
    /\ usageTracker.count = 0
    /\ [][/\ usageTracker'.count >= usageTracker.count
          /\ usageTracker'.count = usageTracker.count
                + (IF FreeRun THEN Cardinality(Analysed' \cap Settling) ELSE 0)
          /\ \A r \in Pushed :
               r.kind = "audit" =>
                 IF FreeRun
                 THEN /\ r.free_tier_remaining.t = "number"
                      /\ r.free_tier_remaining.v >= 0
                      /\ r.free_tier_remaining.v =
                           (IF 5 - usageTracker'.count > 0
                            THEN 5 - usageTracker'.count ELSE 0)
                 ELSE r.free_tier_remaining = Null]_vars

\* C28 witness: a free-mode run in which one analysis failed and left no
\* result, five succeeded, and an audit record reports no analysis remaining
C28_Witness ==
    /\ FreeRun
    /\ usageTracker.count = 5
    /\ \E u \in startUrls :
         /\ handler[u].pc = "done"
         /\ u \notin Analysed
         /\ \E i \in 1..Len(dataset) :
              dataset[i].url = u /\ dataset[i].kind = "failed"
    /\ \E i \in 1..Len(dataset) :
         dataset[i].kind = "audit" /\ dataset[i].free_tier_remaining = Num(0)

=============================================================================
